---- MODULE Spec2Model ----
(***************************************************************************)
(* A model of the command-line weather client of src/main.py: the          *)
(* credential check done when the module is loaded, the two fetch          *)
(* operations, the two display helpers and the entry point main().         *)
(*                                                                         *)
(* JSON values and Python values are tagged records:                       *)
(*   [t |-> "null"]            None / JSON null                            *)
(*   [t |-> "str", v |-> s]    a string                                    *)
(*   [t |-> "num", v |-> s]    a number, carried as its Python text        *)
(*   [t |-> "obj", v |-> f]    a dict, f a function on its keys            *)
(*   [t |-> "list", v |-> q]   a list, q a sequence                        *)
(* A call that may raise returns [ok |-> TRUE, val |-> v] or               *)
(* [ok |-> FALSE, exc |-> name of the exception class].                    *)
(***************************************************************************)
EXTENDS Integers, Sequences, FiniteSets, TLC

VARIABLES
    pc,        \* position of the process
    env,       \* value of OPENWEATHER_API_KEY after load_dotenv()
    args,      \* the parsed command line (argparse Namespace)
    inflight,  \* number of HTTP requests sent and not yet answered
    requests,  \* the HTTP requests issued so far, in order
    resp,      \* the upstream's answer to the latest request
    current,   \* main(): local variable current
    forecast,  \* main(): local variable forecast
    exc,       \* the exception being handled by main()'s except clause
    stdout     \* everything printed, one element per print() call

vars == <<pc, env, args, inflight, requests, resp, current, forecast, exc, stdout>>

-----------------------------------------------------------------------------
(* Bounds of the model *)

\* --entries ranges over -MaxNeg .. MaxEntries
MaxEntries == 3
MaxNeg == 2
\* the upstream forecast list has at most MaxList entries
MaxList == 3

-----------------------------------------------------------------------------
(* Values *)

None == [t |-> "null"]
Str(s) == [t |-> "str", v |-> s]
Num(s) == [t |-> "num", v |-> s]
Obj(f) == [t |-> "obj", v |-> f]
Lst(q) == [t |-> "list", v |-> q]

\* {} and [{}], the defaults handed to dict.get
EmptyDict == Obj(<<>>)
DefaultWeather == Lst(<<EmptyDict>>)

Ok(v) == [ok |-> TRUE, val |-> v]
Raise(e) == [ok |-> FALSE, exc |-> e]

\* the result variables before their assignment, and "no exception"
Unset == <<>>
NoExc == ""

Min(a, b) == IF a < b THEN a ELSE b
Max(a, b) == IF a > b THEN a ELSE b

\* d.get(k, default) on a dict d
Get(d, k, default) == IF k \in DOMAIN d.v THEN d.v[k] ELSE default

\* x[0] for the values the upstream body can hold under "weather"
Subscript0_Last(x) ==
    CASE x.t = "list" -> IF Len(x.v) = 0 THEN Raise("IndexError") ELSE Ok(x.v[Len(x.v)])
      [] x.t = "obj"  -> Raise("KeyError")
      [] x.t \in {"null", "num"} -> Raise("TypeError")

Subscript0(x) ==
    CASE x.t = "list" -> IF Len(x.v) = 0 THEN Raise("IndexError") ELSE Ok(x.v[1])
      [] x.t = "obj"  -> Raise("KeyError")
      [] x.t \in {"null", "num"} -> Raise("TypeError")

\* q[:n] on a Python list q: a negative n counts from the end
PySlice_NoTruncate(q, n) == q

PySlice(q, n) ==
    IF n >= 0 THEN SubSeq(q, 1, Min(n, Len(q)))
    ELSE SubSeq(q, 1, Max(Len(q) + n, 0))

\* f"{x}" for the leaf values
Fmt(x) ==
    CASE x.t = "null" -> "None"
      [] x.t \in {"str", "num"} -> x.v

\* sep.join(lines)
RECURSIVE Join(_, _)
Join(lines, sep) ==
    IF Len(lines) = 0 THEN ""
    ELSE IF Len(lines) = 1 THEN lines[1]
    ELSE lines[1] \o sep \o Join(Tail(lines), sep)

-----------------------------------------------------------------------------
(* Configuration *)

BASE_URL == "https://api.openweathermap.org/data/2.5"
TIMEOUT == 10

\* the truth value of `not API_KEY`: None and "" are both falsy
NotKey_NoneOnly(k) == k.t = "null"

NotKey(k) == k.t = "null" \/ (k.t = "str" /\ k.v = "")

Request(path, city, units) ==
    [url |-> BASE_URL \o path, q |-> city, appid |-> env, units |-> units,
     timeout |-> TIMEOUT]

-----------------------------------------------------------------------------
(* The upstream: what one GET can come back with *)

\* str(e) of the RequestException raised by requests.get / raise_for_status:
\* a timeout, a connection failure, a 4xx and a 5xx status
FailureTexts ==
    {"Read timed out.", "Connection refused", "404 Client Error", "500 Server Error"}

FullMain ==
    Obj([temp |-> Num("31.5"), feels_like |-> Num("33.0"),
         humidity |-> Num("40"), pressure |-> Num("1008")])
W1 == Obj([main |-> Str("Clear"), description |-> Str("clear sky")])
W2 == Obj([main |-> Str("Haze"), description |-> Str("haze")])

MainChoices == {FullMain, Obj([temp |-> Num("31.5")]), EmptyDict, None}
WeatherChoices == {Lst(<<W1>>), Lst(<<W2, W1>>), Lst(<<EmptyDict>>), Lst(<<>>)}

\* decoded bodies of GET /weather: every subset of the top-level keys is present
CurrentBodies ==
    { Obj([k \in K |-> full[k]]) :
        K \in SUBSET {"name", "sys", "main", "weather", "wind"},
        full \in [name : {Str("Lahore")},
                  sys : {Obj([country |-> Str("PK")])},
                  main : MainChoices,
                  weather : WeatherChoices,
                  wind : {Obj([speed |-> Num("4.1")])}] }
    \cup {Lst(<<>>)}

Failures == {[kind |-> "fail", text |-> x] : x \in FailureTexts}
NotJson == [kind |-> "ok", json |-> FALSE]
NoResp == [kind |-> "none"]

CurrentResponses ==
    Failures \cup {NotJson}
    \cup {[kind |-> "ok", json |-> TRUE, data |-> b] : b \in CurrentBodies}

\* forecast entries: a full one, one without weather and wind, one whose
\* weather list is empty
E1 ==
    Obj([dt_txt |-> Str("2026-01-01 00:00:00"), main |-> FullMain,
         weather |-> Lst(<<W1, W2>>), wind |-> Obj([speed |-> Num("4.1")])])
E2 == Obj([dt_txt |-> Str("2026-01-01 03:00:00"), main |-> Obj([temp |-> Num("29.0")])])
E3 == Obj([dt_txt |-> Str("2026-01-01 06:00:00"), weather |-> Lst(<<>>)])

ForecastLists ==
    {Lst(q) : q \in UNION {[1..n -> {E1, E2, E3}] : n \in 0..MaxList}} \cup {None}

ForecastBodies ==
    { Obj([k \in K |-> full[k]]) :
        K \in SUBSET {"list", "city"},
        full \in [list : ForecastLists,
                  city : {Obj([name |-> Str("Lahore"), country |-> Str("PK")])}] }

ForecastResponses ==
    Failures \cup {NotJson}
    \cup {[kind |-> "ok", json |-> TRUE, data |-> b] : b \in ForecastBodies}

-----------------------------------------------------------------------------
(* Core functions *)

\* fetch_weather_current, lines 32-47: the decoded body to the record
ParseCurrent(data) ==
    IF data.t # "obj" THEN Raise("AttributeError")
    ELSE
      LET main == Get(data, "main", EmptyDict)
          w0 == Subscript0(Get(data, "weather", DefaultWeather))
          wind == Get(data, "wind", EmptyDict)
          sys == Get(data, "sys", EmptyDict)
      IN  IF ~w0.ok THEN w0
          ELSE IF sys.t # "obj" \/ main.t # "obj" \/ w0.val.t # "obj" \/ wind.t # "obj"
          THEN Raise("AttributeError")
          ELSE Ok([city |-> Get(data, "name", None),
                   country |-> Get(sys, "country", None),
                   temp |-> Get(main, "temp", None),
                   feels_like |-> Get(main, "feels_like", None),
                   humidity |-> Get(main, "humidity", None),
                   pressure |-> Get(main, "pressure", None),
                   weather_main |-> Get(w0.val, "main", None),
                   weather_desc |-> Get(w0.val, "description", None),
                   wind_speed |-> Get(wind, "speed", None)])

\* fetch_weather_current, from the answer r of its GET onwards
fetch_weather_current_NoCatch(r) ==
    IF r.kind = "fail" THEN Raise("RequestException")
    ELSE IF ~r.json THEN Raise("JSONDecodeError")
    ELSE ParseCurrent(r.data)

fetch_weather_current(r) ==
    IF r.kind = "fail" THEN Ok([error |-> Str("Request failed: " \o r.text)])
    ELSE IF ~r.json THEN Raise("JSONDecodeError")
    ELSE ParseCurrent(r.data)

\* the body of the for loop of fetch_weather_forecast, for one entry
ParseEntry(entry) ==
    IF entry.t # "obj" THEN Raise("AttributeError")
    ELSE
      LET main == Get(entry, "main", EmptyDict)
          w0 == Subscript0(Get(entry, "weather", DefaultWeather))
          wind == Get(entry, "wind", EmptyDict)
      IN  IF ~w0.ok THEN w0
          ELSE IF main.t # "obj" \/ w0.val.t # "obj" \/ wind.t # "obj"
          THEN Raise("AttributeError")
          ELSE Ok([datetime |-> Get(entry, "dt_txt", None),
                   temp |-> Get(main, "temp", None),
                   feels_like |-> Get(main, "feels_like", None),
                   humidity |-> Get(main, "humidity", None),
                   pressure |-> Get(main, "pressure", None),
                   weather_main |-> Get(w0.val, "main", None),
                   weather_desc |-> Get(w0.val, "description", None),
                   wind_speed |-> Get(wind, "speed", None)])

\* the for loop: the entries in order, stopped by the first exception
RECURSIVE ParseEntries(_)
ParseEntries(q) ==
    IF Len(q) = 0 THEN Ok(<<>>)
    ELSE LET h == ParseEntry(Head(q)) IN
         IF ~h.ok THEN h
         ELSE LET rest == ParseEntries(Tail(q)) IN
              IF ~rest.ok THEN rest ELSE Ok(<<h.val>> \o rest.val)

\* fetch_weather_forecast, from the answer r of its GET onwards
fetch_weather_forecast(cnt, r) ==
    IF r.kind = "fail" THEN Ok([error |-> Str("Request failed: " \o r.text)])
    ELSE IF ~r.json THEN Raise("JSONDecodeError")
    ELSE LET data == r.data IN
      IF data.t # "obj" THEN Raise("AttributeError")
      ELSE
        LET raw_list == Get(data, "list", Lst(<<>>)) IN
        IF raw_list.t # "list" THEN Raise("TypeError")
        ELSE
          LET forecasts == ParseEntries(PySlice(raw_list.v, cnt))
              city == Get(data, "city", EmptyDict)
          IN  IF ~forecasts.ok THEN forecasts
              ELSE IF city.t # "obj" THEN Raise("AttributeError")
              ELSE Ok([city |-> Get(city, "name", None),
                       country |-> Get(city, "country", None),
                       forecasts |-> forecasts.val])

-----------------------------------------------------------------------------
(* Display helpers *)

\* the pictographs of the templates, written as ASCII names:
\* U+1F4CD, U+1F324 U+FE0F, U+1F321 U+FE0F, U+1F4A7, U+1F4A8, U+1F52E
PIN == "(pin)"
SUN == "(sun)"
THERMO == "(thermometer)"
DROP == "(droplet)"
DASH == "(dash)"
BALL == "(crystal ball)"

pretty_current(d) ==
    IF "error" \in DOMAIN d THEN "Error: " \o Fmt(d.error)
    ELSE PIN \o " " \o Fmt(d.city) \o ", " \o Fmt(d.country) \o "\n"
         \o SUN \o "  " \o Fmt(d.weather_main) \o " - " \o Fmt(d.weather_desc) \o "\n"
         \o THERMO \o "  Temp: " \o Fmt(d.temp) \o "°C (feels like "
            \o Fmt(d.feels_like) \o "°C)\n"
         \o DROP \o " Humidity: " \o Fmt(d.humidity) \o "% | Pressure: "
            \o Fmt(d.pressure) \o " hPa\n"
         \o DASH \o " Wind speed: " \o Fmt(d.wind_speed) \o " m/s\n"

\* the list `out` of pretty_forecast: one line per entry of forecasts[:show_n]
ForecastLines(fc, show_n) ==
    LET shown == PySlice(IF "forecasts" \in DOMAIN fc THEN fc.forecasts ELSE <<>>, show_n)
    IN  [i \in 1..Len(shown) |->
            Fmt(shown[i].datetime) \o ": " \o Fmt(shown[i].temp) \o "°C, "
            \o Fmt(shown[i].weather_desc)]

pretty_forecast(fc, show_n) ==
    IF "error" \in DOMAIN fc THEN "Error: " \o Fmt(fc.error)
    ELSE LET out == ForecastLines(fc, show_n) IN
         IF Len(out) > 0 THEN Join(out, "\n") ELSE "No forecast data."

-----------------------------------------------------------------------------
(* The process: module load, then main() *)

Cities == {"Lahore", "London,UK"}

\* the classes `except Exception` catches, among those the fetches can raise
IsException_ValueErrorOnly(e) == e = "JSONDecodeError"

IsException(e) ==
    e \in {"JSONDecodeError", "AttributeError", "IndexError", "KeyError",
           "TypeError", "RequestException"}

\* where a raise inside main()'s try block lands
Unwind(e) == IF IsException(e) THEN "except" ELSE "crashed"

\* `if args.forecast:` after the current conditions are printed
AfterCurrent_Always(a) == "fetch_forecast"

AfterCurrent(a) == IF a.forecast THEN "fetch_forecast" ELSE "done"

Init ==
    /\ pc = "load"
    /\ env \in {None, Str(""), Str("k1")}
    /\ args = Unset
    /\ inflight = 0
    /\ requests = <<>>
    /\ resp = NoResp
    /\ current = Unset
    /\ forecast = Unset
    /\ exc = NoExc
    /\ stdout = <<>>

\* lines 10-14: the credential is read once; RuntimeError ends the process
LoadConfig ==
    /\ pc = "load"
    /\ pc' = IF NotKey(env) THEN "aborted" ELSE "main"
    /\ UNCHANGED <<env, args, inflight, requests, resp, current, forecast, exc, stdout>>

\* lines 116-120: a command line argparse accepts
ParseArgs ==
    /\ pc = "main"
    /\ \E c \in Cities, f \in BOOLEAN, n \in (0 - MaxNeg)..MaxEntries :
         args' = [city |-> c, forecast |-> f, entries |-> n]
    /\ pc' = "fetch_current"
    /\ UNCHANGED <<env, inflight, requests, resp, current, forecast, exc, stdout>>

\* line 120: a command line argparse rejects (no city, --entries not an int):
\* parse_args() leaves through SystemExit, outside the try block
ParseArgsExit ==
    /\ pc = "main"
    /\ pc' = "usage"
    /\ UNCHANGED <<env, args, inflight, requests, resp, current, forecast, exc, stdout>>

\* lines 123, 24-27: the GET of fetch_weather_current goes out
SendCurrent ==
    /\ pc = "fetch_current"
    /\ requests' = Append(requests, Request("/weather", args.city, "metric"))
    /\ inflight' = inflight + 1
    /\ pc' = "await_current"
    /\ UNCHANGED <<env, args, resp, current, forecast, exc, stdout>>

\* lines 27-47: the answer arrives and fetch_weather_current returns or raises
RecvCurrent ==
    /\ pc = "await_current"
    /\ \E r \in CurrentResponses :
         LET res == fetch_weather_current(r) IN
         /\ resp' = r
         /\ IF res.ok
            THEN current' = res.val /\ exc' = exc /\ pc' = "print_current"
            ELSE current' = current /\ exc' = res.exc /\ pc' = Unwind(res.exc)
    /\ inflight' = inflight - 1
    /\ UNCHANGED <<env, args, requests, forecast, stdout>>

\* lines 124-126
PrintCurrent ==
    /\ pc = "print_current"
    /\ stdout' = Append(stdout, pretty_current(current))
    /\ pc' = AfterCurrent(args)
    /\ UNCHANGED <<env, args, inflight, requests, resp, current, forecast, exc>>

\* lines 127-128, 52-55: the header is printed and the GET of
\* fetch_weather_forecast goes out
SendForecast ==
    /\ pc = "fetch_forecast"
    /\ stdout' = Append(stdout, "\n" \o BALL \o " Forecast:")
    /\ requests' = Append(requests, Request("/forecast", args.city, "metric"))
    /\ inflight' = inflight + 1
    /\ resp' = NoResp
    /\ pc' = "await_forecast"
    /\ UNCHANGED <<env, args, current, forecast, exc>>

\* lines 55-83: the answer arrives and fetch_weather_forecast returns or raises
RecvForecast ==
    /\ pc = "await_forecast"
    /\ \E r \in ForecastResponses :
         LET res == fetch_weather_forecast(args.entries, r) IN
         /\ resp' = r
         /\ IF res.ok
            THEN forecast' = res.val /\ exc' = exc /\ pc' = "print_forecast"
            ELSE forecast' = forecast /\ exc' = res.exc /\ pc' = Unwind(res.exc)
    /\ inflight' = inflight - 1
    /\ UNCHANGED <<env, args, requests, current, stdout>>

\* line 129
PrintForecast ==
    /\ pc = "print_forecast"
    /\ stdout' = Append(stdout, pretty_forecast(forecast, args.entries))
    /\ pc' = "done"
    /\ UNCHANGED <<env, args, inflight, requests, resp, current, forecast, exc>>

\* lines 131-132; exc stands for the text of the exception
HandleException ==
    /\ pc = "except"
    /\ stdout' = Append(stdout, "Unexpected error: " \o exc)
    /\ pc' = "done"
    /\ UNCHANGED <<env, args, inflight, requests, resp, current, forecast, exc>>

Next ==
    \/ LoadConfig
    \/ ParseArgs
    \/ ParseArgsExit
    \/ SendCurrent
    \/ RecvCurrent
    \/ PrintCurrent
    \/ SendForecast
    \/ RecvForecast
    \/ PrintForecast
    \/ HandleException

Spec == Init /\ [][Next]_vars

\* the interpreter runs a single thread to its end, and every GET ends within
\* its timeout: no step stays enabled for ever without being taken
FairSpec == Spec /\ WF_vars(Next)

-----------------------------------------------------------------------------
(* Vocabulary of the properties *)

CurrentKeys ==
    {"city", "country", "temp", "feels_like", "humidity", "pressure",
     "weather_main", "weather_desc", "wind_speed"}
EntryKeys ==
    {"datetime", "temp", "feels_like", "humidity", "pressure",
     "weather_main", "weather_desc", "wind_speed"}
ForecastKeys == {"city", "country", "forecasts"}

AbsentOrEmpty(k) == k = None \/ k = Str("")

\* the latest answer is the one to the current-weather / to the forecast GET
CurrentAnswered == Len(requests) = 1 /\ resp.kind # "none"
ForecastAnswered == Len(requests) = 2 /\ resp.kind # "none"
GotBody == resp.kind = "ok" /\ resp.json

\* number of GETs issued to a resource path
CountPath(path) ==
    Cardinality({i \in 1..Len(requests) : requests[i].url = BASE_URL \o path})

\* the list the upstream sent under "list" (fetch_weather_forecast returned)
UpstreamList == IF "list" \in DOMAIN resp.data.v THEN resp.data.v["list"].v ELSE <<>>

\* every optional part of a current-weather body or forecast entry is either
\* missing, empty, or of its regular shape
IsDictOf(x, keys) == x.t = "obj" /\ DOMAIN x.v \subseteq keys
PartsMissingOrEmpty(d) ==
    /\ d.t = "obj"
    /\ "main" \in DOMAIN d.v =>
          IsDictOf(d.v["main"], {"temp", "feels_like", "humidity", "pressure"})
    /\ "weather" \in DOMAIN d.v =>
          /\ d.v["weather"].t = "list"
          /\ \A i \in 1..Len(d.v["weather"].v) :
                IsDictOf(d.v["weather"].v[i], {"main", "description"})
    /\ "wind" \in DOMAIN d.v => IsDictOf(d.v["wind"], {"speed"})
    /\ "sys" \in DOMAIN d.v => IsDictOf(d.v["sys"], {"country"})

\* the same for a forecast body and each entry of its list
ForecastPartsMissingOrEmpty(d) ==
    /\ d.t = "obj"
    /\ "city" \in DOMAIN d.v => IsDictOf(d.v["city"], {"name", "country"})
    /\ "list" \in DOMAIN d.v =>
          /\ d.v["list"].t = "list"
          /\ \A i \in 1..Len(d.v["list"].v) : PartsMissingOrEmpty(d.v["list"].v[i])

\* a current-weather body with every part present
WellFormedCurrent(d) ==
    /\ d.t = "obj"
    /\ DOMAIN d.v = {"name", "sys", "main", "weather", "wind"}
    /\ d.v["sys"].t = "obj" /\ DOMAIN d.v["sys"].v = {"country"}
    /\ d.v["main"].t = "obj"
    /\ DOMAIN d.v["main"].v = {"temp", "feels_like", "humidity", "pressure"}
    /\ d.v["wind"].t = "obj" /\ DOMAIN d.v["wind"].v = {"speed"}
    /\ d.v["weather"].t = "list" /\ Len(d.v["weather"].v) >= 1
    /\ \A i \in 1..Len(d.v["weather"].v) :
          /\ d.v["weather"].v[i].t = "obj"
          /\ DOMAIN d.v["weather"].v[i].v = {"main", "description"}

\* the forecast rendering has been printed
ForecastPrinted == pc = "done" /\ exc = NoExc /\ Len(requests) = 2

\* the line of one forecast entry
LineOf(e) == Fmt(e.datetime) \o ": " \o Fmt(e.temp) \o "°C, " \o Fmt(e.weather_desc)

\* the number of entries a count n asks for out of len
Asked(n, len) == Min(Max(n, 0), len)

-----------------------------------------------------------------------------
(* Properties *)

C2_NoRequestWithoutCredential ==
    AbsentOrEmpty(env) =>
        /\ requests = <<>>
        /\ inflight = 0
        /\ DOMAIN args = {}
        /\ pc \in {"load", "aborted"}

C2_Witness == pc = "aborted" /\ env = Str("")

\* C3: on a successful answer whose list has L entries, a count >= 0 yields
\* exactly min(count, L) entries: the first ones of the list, in their order.
C3_FirstCountEntries ==
    (pc = "print_forecast" /\ GotBody /\ args.entries >= 0) =>
        /\ "forecasts" \in DOMAIN forecast
        /\ Len(forecast.forecasts) = Min(args.entries, Len(UpstreamList))
        /\ \A i \in 1..Len(forecast.forecasts) :
              forecast.forecasts[i].datetime = UpstreamList[i].v["dt_txt"]

C3_Witness ==
    /\ pc = "print_forecast" /\ GotBody
    /\ args.entries = 2
    /\ Len(UpstreamList) = 3
    /\ UpstreamList[1] # UpstreamList[2]
    /\ Len(forecast.forecasts) = 2

\* C4: on a successful answer, every count <= 0 yields an empty entries
\* sequence.
C4_NonPositiveCountEmpty ==
    (pc = "print_forecast" /\ GotBody /\ args.entries <= 0) =>
        /\ "forecasts" \in DOMAIN forecast
        /\ Len(forecast.forecasts) = 0

\* C5: on a successful answer no fetch raises, whatever optional parts of the
\* body are missing or empty (an empty weather list included), and every
\* missing field is null in the record.
C5_MissingPartsNeverRaise ==
    /\ (CurrentAnswered /\ GotBody /\ PartsMissingOrEmpty(resp.data)) =>
          /\ exc = NoExc
          /\ DOMAIN current = CurrentKeys
          /\ "name" \notin DOMAIN resp.data.v => current.city = None
          /\ "wind" \notin DOMAIN resp.data.v => current.wind_speed = None
          /\ "sys" \notin DOMAIN resp.data.v => current.country = None
          /\ "main" \notin DOMAIN resp.data.v =>
                /\ current.temp = None /\ current.feels_like = None
                /\ current.humidity = None /\ current.pressure = None
    /\ (ForecastAnswered /\ GotBody /\ ForecastPartsMissingOrEmpty(resp.data)) =>
          /\ exc = NoExc
          /\ DOMAIN forecast = ForecastKeys
          /\ "city" \notin DOMAIN resp.data.v =>
                forecast.city = None /\ forecast.country = None

\* C6: for a well-formed current-weather body each of the nine fields of the
\* record equals the value of the body, the two condition fields being those
\* of the first element of the weather list.
C6_FieldsEqualBody ==
    (CurrentAnswered /\ GotBody /\ WellFormedCurrent(resp.data)) =>
        LET d == resp.data.v IN
        /\ exc = NoExc
        /\ DOMAIN current = CurrentKeys
        /\ current.city = d["name"]
        /\ current.country = d["sys"].v["country"]
        /\ current.temp = d["main"].v["temp"]
        /\ current.feels_like = d["main"].v["feels_like"]
        /\ current.humidity = d["main"].v["humidity"]
        /\ current.pressure = d["main"].v["pressure"]
        /\ current.weather_main = d["weather"].v[1].v["main"]
        /\ current.weather_desc = d["weather"].v[1].v["description"]
        /\ current.wind_speed = d["wind"].v["speed"]

C6_Witness ==
    /\ pc = "print_current" /\ GotBody /\ WellFormedCurrent(resp.data)
    /\ Len(resp.data.v["weather"].v) = 2
    /\ resp.data.v["weather"].v[1] # resp.data.v["weather"].v[2]
    /\ current.weather_main = Str("Haze")

\* C7: the forecast rendering of an error is "Error: {message}"; otherwise it
\* is the lines of the first show_count entries, in order, joined by newlines,
\* and it is "No forecast data." exactly when no entry is among the first
\* show_count; it is never the empty string.
C7_RenderForecast ==
    ForecastPrinted =>
        LET out == stdout[Len(stdout)]
            n == args.entries
        IN  /\ out # ""
            /\ "error" \in DOMAIN forecast => out = "Error: " \o forecast.error.v
            /\ "error" \notin DOMAIN forecast =>
                  LET k == Asked(n, Len(forecast.forecasts)) IN
                  /\ (out = "No forecast data.") <=> (k = 0)
                  /\ k > 0 => out = Join([i \in 1..k |-> LineOf(forecast.forecasts[i])], "\n")

C9_UnexpectedErrorCaught ==
    /\ [](pc # "crashed")
    /\ []((pc = "done" /\ exc # NoExc) =>
            /\ inflight = 0
            /\ stdout[Len(stdout)] = "Unexpected error: " \o exc
            /\ Cardinality({i \in 1..Len(stdout) :
                              stdout[i] = "Unexpected error: " \o exc}) = 1)
    /\ [][exc # NoExc => (requests' = requests /\ inflight' = inflight)]_vars
    /\ (exc # NoExc) ~> (pc = "done")

C9_Witness ==
    /\ pc = "done" /\ exc = "IndexError"
    /\ Len(requests) = 1 /\ args.forecast

\* C10: with --entries N and a successful list of L entries the number of
\* forecast lines displayed is min(max(N, 0), L), and the display-time
\* truncation removes no entry the fetch-time truncation kept.
C10_DisplayedCount ==
    (ForecastPrinted /\ GotBody) =>
        /\ Len(ForecastLines(forecast, args.entries)) = Asked(args.entries, Len(UpstreamList))
        /\ Len(ForecastLines(forecast, args.entries)) = Len(forecast.forecasts)

====
